---- MODULE Spec2Model ----
(***************************************************************************)
(* Everruns Python SDK: the SSE event stream (everruns_sdk/sse.py), the    *)
(* resource model it decodes into (everruns_sdk/models.py), the client and *)
(* its REST transport (everruns_sdk/client.py), the local tools of the     *)
(* cookbook (cookbook/python/src/weather_tools.py), and the example         *)
(* programs (cookbook/python/src, python/examples/basic.py) as written.    *)
(*                                                                         *)
(* Event ids are opaque strings in the code; the model writes them as the  *)
(* positive integers 1, 2, ... in the server's assignment order, and       *)
(* writes Python's None as 0.                                              *)
(***************************************************************************)
EXTENDS Integers, Sequences, FiniteSets, TLC

\* ------------------------------------------------------------------ bounds

\* Longest server event log explored.
MaxLog == 3
\* Most open calls (iterations of a stream) in one behaviour.
MaxOpens == 2
\* Most frames the server re-delivers on one connection.
MaxRedeliver == 1
\* Most content parts the messages of one turn carry in all.
MaxParts == 2
\* Most REST calls made through one client.
MaxRequests == 2
\* Longest exclude list a caller passes.
MaxExclude == 2

\* ------------------------------------------------------------- vocabulary

None == 0

\* The id that is the empty string: Event.id is a str (models.py:191) and
\* accepts it; it sorts before every other id.
EmptyId == -1

\* The keys Event requires (models.py: id, type, ts, session_id, data).
RequiredKeys == {"id", "type", "ts", "session_id", "data"}

\* Event types the orchestration logic looks at.
TerminalTypes == {"turn.completed", "turn.failed"}
EventTypes == {"output.message.completed"} \cup TerminalTypes

\* The untyped payload of an event (Event.data); the stream never looks at it.
\*   has_message     : data["message"] is a JSON object
\*   content_is_list : data["message"]["content"] is a JSON array
NoPayload == [has_message |-> FALSE, content_is_list |-> FALSE, content |-> << >>]

\* An Event as decoded; NoEvent stands for "the consumer holds nothing".
NoEvent == [id |-> None, type |-> "", data |-> NoPayload]

\* JSON and Python values that are a string or nothing: a string, or one of
\* the markers Absent (the key is missing / None), Null (JSON null), NonStr
\* (a JSON number).
Absent == "<absent>"
Null == "<null>"
NonStr == "<number>"

\* Python truthiness of such a value (a number here is non-zero).
TruthyValue(v) == v \notin {Absent, Null, ""}

\* ------------------------------------------------ the client (client.py)

\* A base URL: the text up to its trailing slashes, and how many follow.
\* client.py:27  DEFAULT_BASE_URL = "https://app.everruns.com/api"
DEFAULT_BASE_URL == [stem |-> "https://app.everruns.com/api", slashes |-> 0]

NoUrl == [stem |-> "", slashes |-> 0]

\* A base_url argument of None.
NoneUrl == [stem |-> Null, slashes |-> 0]

\* client.py:59  base_url.rstrip("/")
rstrip_slash(u) == [stem |-> u.stem, slashes |-> 0]

\* The ApiKey value object: it holds the key it was given.
ApiKey(value) == [value |-> value]

NoKey == [value |-> Absent]

\* No error / no outcome of a call yet.
NoError == [class |-> "", status |-> 0, code |-> "", message |-> ""]
NoCall == [method |-> "", status |-> 0,
           body |-> [kind |-> "text", code |-> "", message |-> "", text |-> ""],
           raised |-> FALSE, error |-> NoError, returned |-> "nothing"]

\* What the caller passes to Everruns(...), and the process environment.
ConstructorArgs(org, api_key, base_url, environ) ==
    [org |-> org, api_key |-> api_key, base_url |-> base_url, environ |-> environ]

\* The client before __init__ has run.
NewClient(args) ==
    [state |-> "new", args |-> args, api_key |-> NoKey, org |-> Absent,
     base_url |-> NoUrl, http_client |-> "none", authorization |-> Absent,
     error |-> "", requests |-> << >>, awaiting |-> FALSE, last |-> NoCall]

\* client.py:50  os.environ.get("EVERRUNS_API_KEY"): None when it is not set.
EnvironGet(environ) == environ

\* client.py:43-67  Everruns.__init__: org has no default, a call without it
\* is refused with TypeError.  The key is the argument or, when that is None,
\* the environment's; without one ValueError is raised at line 52.  A
\* base_url of None has no rstrip (line 59, AttributeError).  All three
\* happen before the httpx.AsyncClient of line 60 exists.
Everruns_init(org, api_key, base_url, environ) ==
    LET key == IF api_key = Absent THEN EnvironGet(environ) ELSE api_key
    IN  IF org = Absent
            THEN [NewClient(ConstructorArgs(org, api_key, base_url, environ)) EXCEPT
                     !.state = "failed", !.error = "TypeError"]
        ELSE IF api_key = Absent /\ ~TruthyValue(key)
            THEN [NewClient(ConstructorArgs(org, api_key, base_url, environ)) EXCEPT
                     !.state = "failed", !.error = "ValueError"]
        ELSE IF base_url = NoneUrl
            THEN [NewClient(ConstructorArgs(org, api_key, base_url, environ)) EXCEPT
                     !.state = "failed", !.error = "AttributeError",
                     !.api_key = ApiKey(key),
                     !.org = org]
            ELSE [NewClient(ConstructorArgs(org, api_key, base_url, environ)) EXCEPT
                     !.state = "ready",
                     !.api_key = ApiKey(key),
                     !.org = org,
                     !.base_url = rstrip_slash(base_url),
                     !.http_client = "open",
                     !.authorization = ApiKey(key).value]

\* client.py:89-90  _url
ApiUrl(c, path) == << "/v1/orgs/", c.org, path >>

\* An HTTP response: its status and its body, which is the JSON error
\* envelope {"error": {"code", "message"}}, some other JSON value, or text
\* that is not JSON (text is the raw body, resp.text).
EnvelopeBody(code, message) == [kind |-> "envelope", code |-> code, message |-> message, text |-> "<json>"]
JsonBody == [kind |-> "json", code |-> "", message |-> "", text |-> "<json>"]
TextBody(text) == [kind |-> "text", code |-> "", message |-> "", text |-> text]

\* httpx.Response.is_success: the status is 2xx.
is_success(status) == status >= 200 /\ status <= 299

\* resp.json() succeeds on a JSON body.
ResponseJsonOk(body) == body.kind \in {"envelope", "json"}

\* Variant: a body that is not JSON gives an empty message.
ErrorBody_DropsText(body) ==
    IF ResponseJsonOk(body)
        THEN IF body.kind = "envelope"
                THEN [error |-> [code |-> body.code, message |-> body.message]]
                ELSE [json |-> body.text]
        ELSE [error |-> [code |-> "unknown", message |-> ""]]

\* client.py:115-118  the body _raise_error hands on: the parsed JSON as it
\* is (the error envelope, or any other JSON value), or
\* {"error": {"code": "unknown", "message": resp.text}}.
ErrorBody(body) ==
    IF ResponseJsonOk(body)
        THEN IF body.kind = "envelope"
                THEN [error |-> [code |-> body.code, message |-> body.message]]
                ELSE [json |-> body.text]
        ELSE [error |-> [code |-> "unknown", message |-> body.text]]

\* ApiError.from_response(status_code, body): the error class goes by the
\* status, the error carries the status and the envelope's code and message
\* (none when the body holds no envelope).
ErrorClass(status) ==
    CASE status = 401 -> "AuthenticationError"
      [] status = 404 -> "NotFoundError"
      [] status = 429 -> "RateLimitError"
      [] OTHER -> "ApiError"

from_response(status, body) ==
    IF "error" \in DOMAIN body
        THEN [class |-> ErrorClass(status), status |-> status,
              code |-> body.error.code, message |-> body.error.message]
        ELSE [class |-> ErrorClass(status), status |-> status,
              code |-> Absent, message |-> Absent]

\* client.py:114-119  _raise_error
raise_error(status, body) ==
    [raised |-> TRUE, error |-> from_response(status, ErrorBody(body)), returned |-> "nothing"]

\* client.py:92-112  _get/_post/_patch end in _handle_response, which returns
\* resp.json() on success (a body that is not JSON makes json() raise);
\* _delete returns None on success without reading the body.
handle_response(method, status, body) ==
    IF method = "DELETE"
        THEN IF ~is_success(status) THEN raise_error(status, body)
             ELSE [raised |-> FALSE, error |-> NoError, returned |-> "None"]
        ELSE IF is_success(status)
                THEN IF ResponseJsonOk(body)
                        THEN [raised |-> FALSE, error |-> NoError, returned |-> "json"]
                        ELSE [raised |-> TRUE,
                              error |-> [class |-> "JSONDecodeError", status |-> 0,
                                         code |-> "", message |-> ""],
                              returned |-> "nothing"]
                ELSE raise_error(status, body)

\* What the last REST call was given and what came of it.
CallRecord(method, status, body, outcome) ==
    [method |-> method, status |-> status, body |-> body,
     raised |-> outcome.raised, error |-> outcome.error, returned |-> outcome.returned]

\* weather_tools.py:124-130, main.py:88-96  dev_client(): the key comes from
\* EVERRUNS_API_KEY (ValueError without one), the base URL from
\* EVERRUNS_API_URL (None when it is not set), and Everruns is called
\* without an org.
dev_client(environ, api_url) ==
    IF ~TruthyValue(EnvironGet(environ))
        THEN [NewClient(ConstructorArgs(Absent, Absent, api_url, environ)) EXCEPT
                 !.state = "failed", !.error = "ValueError"]
        ELSE Everruns_init(Absent, EnvironGet(environ), api_url, environ)

\* A client constructed as client.py:43-48 requires, with an org and a key:
\* the client the streams and the loops below are given.
ReadyClient == Everruns_init("org_1", "evr_key", DEFAULT_BASE_URL, Absent)

\* ------------------------------------------------------------- SSE frames
\* A frame on the wire: the SSE event-name field ("" when the frame carries
\* none) and the data field, described by what json.loads makes of it:
\*   kind "object": a JSON object holding exactly the keys in `keys`
\*   kind "text"  : text that is not JSON
\*   kind "empty" : an empty data field

\* httpx_sse: a frame without an event field is dispatched as "message".
SseEventName(frame) == IF frame.event = "" THEN "message" ELSE frame.event

\* Variant: only frames dispatched under the default name are decoded.
FrameGuard_MessageOnly(frame) == SseEventName(frame) = "message"

\* Variant: only frames that carry an event name of their own are decoded.
FrameGuard_NamedOnly(frame) == frame.event # ""

\* sse.py:82  if sse.event == "message" or sse.event:
FrameGuard(frame) == SseEventName(frame) = "message" \/ SseEventName(frame) # ""

\* sse.py:85  json.loads(sse.data) succeeds only on JSON text
JsonLoadsOk(frame) == frame.kind = "object"

\* sse.py:86  Event(**data): every required field must be present and every
\* value must have the type models.py:188-196 declares.
EventCtorOk(frame) == RequiredKeys \subseteq frame.keys /\ frame.typed

EventOf(frame) == [id |-> frame.id, type |-> frame.type, data |-> frame.data]

\* sse.py:83-91: the try block decodes; any Exception is swallowed.
DecodeOk(frame) == FrameGuard(frame) /\ JsonLoadsOk(frame) /\ EventCtorOk(frame)


\* ------------------------------------------------------------------ state

VARIABLES
    log,        \* the server's append-only event log of the session, as frames
    stream,     \* the EventStream object: _last_event_id and its StreamOptions
    pc,         \* where the async generator __aiter__ stands
    conn,       \* the HTTP connection of the current open call
    url,        \* the query parameters of the URL the current open call built
    srvPos,     \* index of the last log entry the server sent on this connection
    redelivered,\* frames re-delivered on this connection
    held,       \* the event the consumer holds (NoEvent when none)
    yielded,    \* events yielded in the current open call, in order
    recv,       \* frames received in the current open call, with their outcome
    termCause,  \* why the current open call stopped ("none" while it runs)
    attempts,   \* connection attempts made by the current open call
    opens,      \* open calls started so far
    calls,      \* the finished open calls: what each asked for and delivered
    loop,       \* the caller of the library: what it holds and how far it got
    client,     \* the Everruns client object and the REST calls made through it
    handshake,  \* the GET request the current open call connected with
    peers       \* EventStream instances run side by side, each with its own state

streamVars == <<log, stream, pc, conn, url, srvPos, redelivered, held, yielded,
                recv, termCause, attempts, opens, calls, handshake>>
vars == <<streamVars, loop, client, peers>>

\* ------------------------------------------------------- the server's log

\* What a log entry looks like on the wire, before the server stamps its id.
MissingKeyShapes ==
    { [event |-> "", kind |-> "object", keys |-> RequiredKeys \ {k}, typed |-> TRUE, idk |-> "seq",
       type |-> "output.message.completed", data |-> NoPayload] : k \in RequiredKeys }

ValidShapes ==
    { [event |-> "", kind |-> "object", keys |-> RequiredKeys, typed |-> TRUE, idk |-> "seq",
       type |-> t, data |-> NoPayload] : t \in EventTypes }
    \cup
    { [event |-> "custom", kind |-> "object", keys |-> RequiredKeys, typed |-> TRUE, idk |-> "seq",
       type |-> "output.message.completed", data |-> NoPayload] }

GarbledShapes ==
    { [event |-> "", kind |-> "text", keys |-> {}, typed |-> TRUE, idk |-> "seq", type |-> "", data |-> NoPayload],
      [event |-> "custom", kind |-> "empty", keys |-> {}, typed |-> TRUE, idk |-> "seq", type |-> "", data |-> NoPayload] }

\* Every frame the server can send: the above, and an object that holds every
\* required key with a value of the wrong type (a number as id, a list as data).
StreamShapes ==
    ValidShapes \cup MissingKeyShapes \cup GarbledShapes
    \cup { [event |-> "", kind |-> "object", keys |-> RequiredKeys, typed |-> FALSE,
            idk |-> "seq", type |-> "output.message.completed", data |-> NoPayload] }

\* The server assigns ids in log order: entry i has id i (strictly
\* increasing), but for an entry whose id is the empty string.
Stamp(shape, i) ==
    [event |-> shape.event, kind |-> shape.kind, keys |-> shape.keys, typed |-> shape.typed,
     id |-> IF shape.kind = "object" /\ "id" \in shape.keys
               THEN (IF shape.idk = "empty" THEN EmptyId ELSE i)
               ELSE None,
     type |-> shape.type, data |-> shape.data]

\* The logs a session can hold when the first stream is created: empty, or
\* one event the caller may already have seen.
InitLogs(shapes) ==
    { << >> } \cup { << Stamp(sh, 1) >> : sh \in shapes }

\* The since_id values a caller can hold for such a log.
InitSince(lg) ==
    {None} \cup { lg[i].id : i \in { j \in 1..Len(lg) : lg[j].id # None } }

\* ------------------------------------------------------------ EventStream

\* Variant: the streaming request is sent without the credential.
StreamRequest_NoAuth(c) == [authorization |-> Absent, base |-> c.base_url]

\* sse.py:55, 74-80  the GET request of an open call: the client's base
\* address and, as Authorization header, the client's key.
StreamRequest(c) == [authorization |-> c.api_key.value, base |-> c.base_url]

NoHandshake == [authorization |-> Absent, base |-> NoUrl]

\* No EventStream runs beside the one of stream, pc, ...

\* sse.py:37-46  EventStream.__init__: the cursor starts as None.
NewStream(since, excl) ==
    [last_event_id |-> None, since_id |-> since, exclude |-> excl]

\* Python truthiness of an Optional[str] id: None and '' are falsy.
Truthy(x) == x \notin {None, EmptyId}

\* sse.py:58  since_id = self._last_event_id or self._options.since_id
EffectiveSince(s) == IF Truthy(s.last_event_id) THEN s.last_event_id ELSE s.since_id

\* sse.py:53-68  _build_url: the query parameters, in order.
BuildUrl(s) ==
    (IF Truthy(EffectiveSince(s))
        THEN << [k |-> "since_id", id |-> EffectiveSince(s), name |-> ""] >>
        ELSE << >>)
    \o [i \in 1..Len(s.exclude) |-> [k |-> "exclude", id |-> None, name |-> s.exclude[i]]]

\* The server's reading of the query: the since_id it was given, if any.
SinceParam(u) ==
    IF \E i \in 1..Len(u) : u[i].k = "since_id"
        THEN u[CHOOSE i \in 1..Len(u) :
                 u[i].k = "since_id" /\ \A j \in 1..(i-1) : u[j].k # "since_id"].id
        ELSE None

\* Variant: the event is yielded before the cursor is advanced.
CursorAtYield_Late(old, ev) == old

\* sse.py:87  self._last_event_id = event.id   (before the yield of line 88)
CursorAtYield(old, ev) == ev.id

\* Variant: no try/except around the decoding, a malformed frame raises.
ProcessFrame_NoCatch(s, frame) ==
    IF DecodeOk(frame)
        THEN [cursor |-> CursorAtYield(s.last_event_id, EventOf(frame)),
              yields |-> TRUE, raised |-> FALSE, event |-> EventOf(frame)]
        ELSE [cursor |-> s.last_event_id,
              yields |-> FALSE, raised |-> TRUE, event |-> NoEvent]

\* Variant: a frame that cannot be decoded clears the cursor.
ProcessFrame_DropClearsCursor(s, frame) ==
    IF DecodeOk(frame)
        THEN [cursor |-> CursorAtYield(s.last_event_id, EventOf(frame)),
              yields |-> TRUE, raised |-> FALSE, event |-> EventOf(frame)]
        ELSE [cursor |-> None,
              yields |-> FALSE, raised |-> FALSE, event |-> NoEvent]

\* sse.py:81-91: what one received frame does to the generator.
\*   yields : the frame was decoded and its event is yielded
\*   raised : an exception leaves the generator (never: line 89 swallows it)
ProcessFrame(s, frame) ==
    IF DecodeOk(frame)
        THEN [cursor |-> CursorAtYield(s.last_event_id, EventOf(frame)),
              yields |-> TRUE, raised |-> FALSE, event |-> EventOf(frame)]
        ELSE [cursor |-> s.last_event_id,
              yields |-> FALSE, raised |-> FALSE, event |-> NoEvent]

\* Variant: the generator returns once it has yielded a terminal event.
AfterYield_StopsOnTerminal(ev) ==
    IF ev.type \in {"turn.completed", "turn.failed"} THEN "ended" ELSE "reading"

\* sse.py:81-88: resumed after a yield, the loop awaits the next frame
\* whatever the type of the event it just yielded.
AfterYield(ev) == "reading"

Terminated == {"ended", "failed", "closed"}


\* ---------------------------------------------------------------- actions

\* The summary of the open call that just stopped, kept when the caller moves on.
\* conn is the connection the call leaves behind: still open when the caller
\* moves on while the generator is suspended at its yield.  After a break
\* (cause "cancel") nothing refers to that generator any more; without one
\* (cause "none") the caller still holds it.
CallSummary ==
    [since |-> SinceParam(url), cursor |-> stream.last_event_id,
     ids |-> [i \in 1..Len(yielded) |-> yielded[i].id],
     sent |-> srvPos,
     cause |-> termCause,
     conn |-> conn]

\* sse.py:72-80  __aiter__ starts: it builds the URL from the cursor and
\* sends the one request; the generator then awaits the handshake (the
\* awaits of lines 74 and 75), the connection neither open nor released.
Open ==
    /\ pc = "idle"
    /\ url' = BuildUrl(stream)
    /\ handshake' = StreamRequest(client)
    /\ conn' = "connecting"
    /\ pc' = "connecting"
    /\ attempts' = attempts + 1
    /\ UNCHANGED <<log, stream, srvPos, redelivered, held, yielded, recv, termCause, opens, calls, loop, client, peers>>

\* sse.py:75-81  the handshake is answered: the connection is open and the
\* generator awaits the first frame.  The server starts after the since_id
\* it was given (ids are log positions).
Connected ==
    /\ pc = "connecting"
    /\ srvPos' = SinceParam(url)
    /\ conn' = "open"
    /\ pc' = "reading"
    /\ UNCHANGED <<log, stream, url, redelivered, held, yielded, recv, termCause, attempts, opens, calls, loop, client, handshake, peers>>

\* sse.py:75-81  the handshake fails and the error leaves the generator.
\* Either the transport raises before any answer (connection refused): no
\* connection was ever open.  Or the server's answer is no event stream (a
\* 401 with a JSON body): the connection was open and is released when the
\* context managers exit.
ConnectFail ==
    /\ pc = "connecting"
    /\ \E answered \in BOOLEAN :
          conn' = IF answered THEN "released" ELSE "never opened"
    /\ pc' = "failed"
    /\ termCause' = "error"
    /\ UNCHANGED <<log, stream, url, srvPos, redelivered, held, yielded, recv, attempts, opens, calls, loop, client, handshake, peers>>

\* Where the generator stands after one frame: suspended at the yield of
\* line 88, back at line 81 for the next frame, or left by an exception.
PcAfterFrame(r) ==
    IF r.raised THEN "failed" ELSE IF r.yields THEN "yielded" ELSE "reading"

\* sse.py:81-91  one frame arrives and is processed.
Deliver(frame) ==
    LET r == ProcessFrame(stream, frame) IN
    /\ stream' = [stream EXCEPT !.last_event_id = r.cursor]
    /\ pc' = PcAfterFrame(r)
    /\ recv' = Append(recv, [frame |-> frame, yields |-> r.yields, raised |-> r.raised,
                             before |-> stream.last_event_id, after |-> r.cursor,
                             pcAfter |-> PcAfterFrame(r)])
    /\ held' = IF r.yields /\ ~r.raised THEN r.event ELSE held
    /\ yielded' = IF r.yields /\ ~r.raised THEN Append(yielded, r.event) ELSE yielded
    /\ conn' = IF r.raised THEN "released" ELSE conn
    /\ termCause' = IF r.raised THEN "error" ELSE termCause

\* The server sends the next entry of its log (an entry an earlier connection
\* did not get to, or got and the client dropped).
Receive ==
    /\ pc = "reading"
    /\ conn = "open"
    /\ srvPos < Len(log)
    /\ srvPos' = srvPos + 1
    /\ Deliver(log[srvPos + 1])
    /\ UNCHANGED <<log, url, redelivered, attempts, opens, calls, loop, client, handshake, peers>>

\* The session produces a new event: the server appends it to its log and
\* sends it on the open connection.  Ids never decrease, so an empty id can
\* only be the first of the log.
ReceiveNew(shapes) ==
    /\ pc = "reading"
    /\ conn = "open"
    /\ srvPos = Len(log)
    /\ Len(log) < MaxLog
    /\ \E shape \in shapes :
          /\ shape.idk = "empty" => Len(log) = 0
          /\ log' = Append(log, Stamp(shape, Len(log) + 1))
          /\ Deliver(Stamp(shape, Len(log) + 1))
    /\ srvPos' = srvPos + 1
    /\ UNCHANGED <<url, redelivered, attempts, opens, calls, loop, client, handshake, peers>>

\* The server sends again the entry it sent last on this connection: the ids
\* it sends are non-decreasing, not strictly increasing.
Redeliver ==
    /\ pc = "reading"
    /\ conn = "open"
    /\ srvPos > SinceParam(url)
    /\ srvPos <= Len(log)
    /\ redelivered < MaxRedeliver
    /\ redelivered' = redelivered + 1
    /\ Deliver(log[srvPos])
    /\ UNCHANGED <<log, url, srvPos, attempts, opens, calls, loop, client, handshake, peers>>

\* sse.py:81  aiter_sse() is exhausted: the connection closed without error,
\* both context managers exit and the generator returns.
ConnClose ==
    /\ pc = "reading"
    /\ conn = "open"
    /\ pc' = "ended"
    /\ conn' = "released"
    /\ termCause' = "close"
    /\ UNCHANGED <<log, stream, url, srvPos, redelivered, held, yielded, recv, attempts, opens, calls, loop, client, handshake, peers>>

\* sse.py:81  aiter_sse() raises (network reset): not caught by line 89, which
\* only wraps the decoding; the error reaches the consumer.
ConnError ==
    /\ pc = "reading"
    /\ conn = "open"
    /\ pc' = "failed"
    /\ conn' = "released"
    /\ termCause' = "error"
    /\ UNCHANGED <<log, stream, url, srvPos, redelivered, held, yielded, recv, attempts, opens, calls, loop, client, handshake, peers>>

\* The consumer asks for the next event: the generator resumes after line 88.
ConsumerNext ==
    /\ pc = "yielded"
    /\ pc' = AfterYield(held)
    /\ held' = NoEvent
    /\ conn' = IF AfterYield(held) = "reading" THEN conn ELSE "released"
    /\ UNCHANGED <<log, stream, url, srvPos, redelivered, yielded, recv, termCause, attempts, opens, calls, loop, client, handshake, peers>>

\* The consumer breaks out of its loop: the generator stays suspended at
\* line 88 with the connection still open until it is finalized.
ConsumerBreak ==
    /\ pc = "yielded"
    /\ pc' = "suspended"
    /\ termCause' = "cancel"
    /\ UNCHANGED <<log, stream, conn, url, srvPos, redelivered, held, yielded, recv, attempts, opens, calls, loop, client, handshake, peers>>

\* aclose() of the abandoned generator: GeneratorExit is raised at line 88,
\* is no Exception (line 89 lets it pass) and both context managers exit.
Finalize ==
    /\ pc = "suspended"
    /\ pc' = "closed"
    /\ conn' = "released"
    /\ UNCHANGED <<log, stream, url, srvPos, redelivered, held, yielded, recv, termCause, attempts, opens, calls, loop, client, handshake, peers>>

\* The consuming task is cancelled while the generator awaits the handshake
\* or a frame: CancelledError is no Exception either.  A connection that was
\* open is released, one still in its handshake never opens.
TaskCancel ==
    /\ pc \in {"connecting", "reading"}
    /\ pc' = "closed"
    /\ conn' = IF conn = "open" THEN "released" ELSE "never opened"
    /\ termCause' = "cancel"
    /\ UNCHANGED <<log, stream, url, srvPos, redelivered, held, yielded, recv, attempts, opens, calls, loop, client, handshake, peers>>

ResetCall ==
    /\ calls' = Append(calls, CallSummary)
    /\ pc' = "idle"
    /\ conn' = "none"
    /\ url' = << >>
    /\ handshake' = NoHandshake
    /\ srvPos' = 0
    /\ redelivered' = 0
    /\ held' = NoEvent
    /\ yielded' = << >>
    /\ recv' = << >>
    /\ termCause' = "none"
    /\ attempts' = 0
    /\ opens' = opens + 1

\* The caller lets go of the generator of an earlier call that it had kept
\* suspended at its yield: from now on nothing refers to it.  Nothing in
\* sse.py closes a generator the caller keeps.
DropReference ==
    /\ \E n \in 1..Len(calls) :
          /\ calls[n].conn = "open"
          /\ calls[n].cause = "none"
          /\ calls' = [calls EXCEPT ![n].cause = "cancel"]
    /\ UNCHANGED <<log, stream, pc, conn, url, srvPos, redelivered, held, yielded, recv, termCause, attempts, opens, loop, client, handshake, peers>>

\* The generator of an earlier call, suspended at its yield and referred to
\* by nothing, is finalized: as in Finalize, its connection is released.
FinalizeAbandoned ==
    /\ \E n \in 1..Len(calls) :
          /\ calls[n].conn = "open"
          /\ calls[n].cause = "cancel"
          /\ calls' = [calls EXCEPT ![n].conn = "released"]
    /\ UNCHANGED <<log, stream, pc, conn, url, srvPos, redelivered, held, yielded, recv, termCause, attempts, opens, loop, client, handshake, peers>>

\* The caller iterates the same EventStream again: __aiter__ runs anew and
\* _build_url reads the cursor the object kept (sse.py:58).  Nothing in the
\* code waits for the earlier call: it may have stopped, or its generator may
\* still be suspended at its yield with the connection open.
Reiterate ==
    /\ pc \in Terminated \cup {"yielded", "suspended"}
    /\ opens < MaxOpens
    /\ ResetCall
    /\ UNCHANGED <<log, stream, loop, client, peers>>

\* The caller resumes with a fresh EventStream, passing the cursor it last
\* observed as since_id (client.py:258-266 / sse.py:37-46).
Resume ==
    /\ pc \in Terminated \cup {"yielded", "suspended"}
    /\ opens < MaxOpens
    /\ ResetCall
    /\ stream' = NewStream(stream.last_event_id, stream.exclude)
    /\ UNCHANGED <<log, loop, client, peers>>

NoLoop == [at |-> "none"]

\* client.py:258-266  client.events.stream(session_id, options): a new
\* EventStream over the caller's options, before anything was read.
InitStreamOver(shapes, excludes) ==
    /\ log \in InitLogs(shapes)
    /\ stream \in { NewStream(since, excl) : since \in InitSince(log), excl \in excludes }
    /\ pc = "idle"
    /\ conn = "none"
    /\ url = << >>
    /\ handshake = NoHandshake
    /\ srvPos = 0
    /\ redelivered = 0
    /\ held = NoEvent
    /\ yielded = << >>
    /\ recv = << >>
    /\ termCause = "none"
    /\ attempts = 0
    /\ opens = 1
    /\ calls = << >>

\* One open call of one stream, against every frame the server can send.
Init ==
    /\ InitStreamOver(StreamShapes, { << >> })
    /\ loop = NoLoop
    /\ client = ReadyClient
    /\ peers = << >>

Next ==
    \/ Open
    \/ Connected
    \/ ConnectFail
    \/ Receive
    \/ ReceiveNew(StreamShapes)
    \/ Redeliver
    \/ ConnClose
    \/ ConnError
    \/ ConsumerNext
    \/ ConsumerBreak
    \/ Finalize
    \/ TaskCancel

Spec == Init /\ [][Next]_vars

\* Several open calls in a row: the caller resumes after each one stops.
ResumeShapes ==
    { sh \in ValidShapes : sh.event = "" /\ sh.type = "output.message.completed" }
    \cup { sh \in GarbledShapes : sh.kind = "text" }
    \cup { [event |-> "", kind |-> "object", keys |-> RequiredKeys, typed |-> TRUE,
            idk |-> "empty", type |-> "output.message.completed", data |-> NoPayload] }

InitResume ==
    /\ InitStreamOver(ResumeShapes, { << >> })
    /\ loop = NoLoop
    /\ client = ReadyClient
    /\ peers = << >>

NextResume ==
    \/ Open
    \/ Connected
    \/ ConnectFail
    \/ Receive
    \/ ReceiveNew(ResumeShapes)
    \/ ConnClose
    \/ ConnError
    \/ ConsumerNext
    \/ ConsumerBreak
    \/ Finalize
    \/ TaskCancel
    \/ DropReference
    \/ FinalizeAbandoned
    \/ Reiterate
    \/ Resume

ResumeSpec == InitResume /\ [][NextResume]_vars


\* ------------------------------------------------- tool calls (models.py)
\* A content part's fields hold strings or the markers of the vocabulary.

\* An arguments value: the key missing, null, or a map with at most a "city".
\* cityk tells what the map holds under "city": nothing ("absent"), a string
\* ("str", its characters in city) or a number ("int").
NoArgs == [kind |-> "absent", cityk |-> "absent", city |-> << >>]
NullArgs == [kind |-> "null", cityk |-> "absent", city |-> << >>]
EmptyMap == [kind |-> "map", cityk |-> "absent", city |-> << >>]
ArgsMap(c) == [kind |-> "map", cityk |-> "str", city |-> c]

RawPart(t, i, n, a) == [type |-> t, id |-> i, name |-> n, arguments |-> a, text |-> Absent]
TextPart(text) == [type |-> "text", id |-> Absent, name |-> Absent, arguments |-> NoArgs, text |-> text]

\* models.py:153-158  ToolCallInfo(id: str, name: str, arguments: dict) validates.
ToolCallInfoOk(i, n, a) == i \notin {NonStr, Null, Absent} /\ n \notin {NonStr, Null, Absent} /\ a.kind = "map"

\* models.py:239  part.get("arguments", {})
ArgumentsOrDefault(part) == IF part.arguments.kind = "absent" THEN EmptyMap ELSE part.arguments

\* models.py:221-241  extract_tool_calls: the calls in content order, or the
\* validation error of the first tool_call part ToolCallInfo rejects.
RECURSIVE ExtractFrom(_)
ExtractFrom(content) ==
    IF content = << >> THEN [raised |-> FALSE, calls |-> << >>]
    ELSE LET part == Head(content)
             rest == ExtractFrom(Tail(content))
         IN  IF part.type # "tool_call" THEN rest
             ELSE IF ~(TruthyValue(part.id) /\ TruthyValue(part.name)) THEN rest
             ELSE IF ~ToolCallInfoOk(part.id, part.name, ArgumentsOrDefault(part))
                     THEN [raised |-> TRUE, calls |-> << >>]
             ELSE IF rest.raised THEN rest
             ELSE [raised |-> FALSE,
                   calls |-> << [id |-> part.id, name |-> part.name,
                                 arguments |-> ArgumentsOrDefault(part)] >> \o rest.calls]

extract_tool_calls(data) ==
    IF ~data.has_message THEN [raised |-> FALSE, calls |-> << >>]
    ELSE IF ~data.content_is_list THEN [raised |-> FALSE, calls |-> << >>]
    ELSE ExtractFrom(data.content)

\* An Optional value: Python's None is the empty sequence, any other value v
\* the sequence holding v.
PyNone == << >>
Some(v) == << v >>

\* models.py:112-125  ContentPart(type=..., tool_call_id=..., result=...,
\* error=...): every field but type is Optional and the model has no
\* validator, so the part holds what it was given.
ContentPart_init(type, tool_call_id, result, error) ==
    [type |-> type, tool_call_id |-> tool_call_id, result |-> result, error |-> error]

\* models.py:132-140  ContentPart.make_tool_result / make_tool_error
make_tool_result(tool_call_id, result) ==
    ContentPart_init("tool_result", tool_call_id, result, PyNone)

make_tool_error(tool_call_id, error) ==
    ContentPart_init("tool_result", tool_call_id, PyNone, error)

\* models.py:115  the values ContentPart.type accepts.
ContentPartTypes == {"text", "image", "image_file", "tool_call", "tool_result"}

\* models.py:112-125, 146-150  ContentPart(**part).as_tool_call(): building the
\* part validates every field (the type is required and one of the five
\* literals, id, name and text are strings or None, the arguments a dict or
\* None) and raises otherwise; an absent and a null field are both None.
\* as_tool_call gives None unless the type is tool_call and id and name are
\* not None, else ToolCallInfo(id, name, arguments or {}), which validates.
as_tool_call(part) ==
    IF part.type \notin ContentPartTypes
            \/ part.id = NonStr \/ part.name = NonStr \/ part.text = NonStr
            \/ part.arguments.kind \notin {"absent", "null", "map"}
        THEN [raised |-> TRUE, info |-> PyNone]
    ELSE IF part.type # "tool_call" \/ part.id \in {Absent, Null} \/ part.name \in {Absent, Null}
        THEN [raised |-> FALSE, info |-> PyNone]
    ELSE LET args == IF part.arguments.kind = "map" THEN part.arguments ELSE EmptyMap
         IN  IF ~ToolCallInfoOk(part.id, part.name, args)
                THEN [raised |-> TRUE, info |-> PyNone]
                ELSE [raised |-> FALSE,
                      info |-> Some([id |-> part.id, name |-> part.name, arguments |-> args])]

\* Variant: the message is built with the role of a user message.
tool_results_AsUser(results) == [role |-> "user", content |-> results]

\* models.py:174-177  MessageInput.tool_results
tool_results(results) == [role |-> "tool_result", content |-> results]

\* -------------------------------------- weather_tools.py: the local tools

\* weather_tools.py:33  str.lower(): every upper-case letter becomes its
\* lower-case one, every other character stays.  A string is the sequence of
\* its characters.
lower(str) ==
    LET upper == << "A", "B", "C", "D", "E", "F", "G", "H", "I", "J", "K", "L", "M",
                    "N", "O", "P", "Q", "R", "S", "T", "U", "V", "W", "X", "Y", "Z" >>
        small == << "a", "b", "c", "d", "e", "f", "g", "h", "i", "j", "k", "l", "m",
                    "n", "o", "p", "q", "r", "s", "t", "u", "v", "w", "x", "y", "z" >>
        low(ch) == IF \E k \in 1..26 : upper[k] = ch
                      THEN small[CHOOSE k \in 1..26 : upper[k] = ch]
                      ELSE ch
    IN  [k \in 1..Len(str) |-> low(str[k])]

\* weather_tools.py:24-34  WEATHER_DATA.get(city.lower(), (20, "clear")): the
\* table is keyed by the lower-case name, the result carries the city as given.
get_weather(city) ==
    LET key == lower(city)
    IN  CASE key = << "p", "a", "r", "i", "s" >> ->
               [city |-> city, temperature_celsius |-> 18, condition |-> "partly cloudy"]
          [] key = << "t", "o", "k", "y", "o" >> ->
               [city |-> city, temperature_celsius |-> 22, condition |-> "sunny"]
          [] key = << "n", "e", "w", " ", "y", "o", "r", "k" >> ->
               [city |-> city, temperature_celsius |-> 15, condition |-> "rainy"]
          [] OTHER ->
               [city |-> city, temperature_celsius |-> 20, condition |-> "clear"]

\* No ContentPart: the handler raised instead of returning one.
NoPart == [type |-> "", tool_call_id |-> "", result |-> << >>, error |-> << >>]

\* Variant: a name without a handler raises instead of giving an error part.
handle_tool_call_UnknownRaises(call_id, name, arguments) ==
    IF name = "get_weather"
        THEN IF arguments.kind # "map" \/ arguments.cityk \notin {"absent", "str"}
                THEN [raised |-> TRUE, part |-> NoPart]
                ELSE LET city == IF arguments.cityk = "absent"
                                    THEN << "u", "n", "k", "n", "o", "w", "n" >>
                                    ELSE arguments.city
                     IN  [raised |-> FALSE,
                          part |-> make_tool_result(call_id, Some(get_weather(city)))]
        ELSE [raised |-> TRUE, part |-> NoPart]

\* weather_tools.py:37-43  handle_tool_call: arguments.get("city", "unknown")
\* raises when the arguments are no dict, and get_weather (city.lower(), line
\* 33) when the city is no string.
handle_tool_call(call_id, name, arguments) ==
    IF name = "get_weather"
        THEN IF arguments.kind # "map" \/ arguments.cityk \notin {"absent", "str"}
                THEN [raised |-> TRUE, part |-> NoPart]
                ELSE LET city == IF arguments.cityk = "absent"
                                    THEN << "u", "n", "k", "n", "o", "w", "n" >>
                                    ELSE arguments.city
                     IN  [raised |-> FALSE,
                          part |-> make_tool_result(call_id, Some(get_weather(city)))]
        ELSE [raised |-> FALSE, part |-> make_tool_error(call_id, Some(<< "Unknown tool: ", name >>))]

\* ------------------- the tool-call round trip, one function after the other
\* A caller holding the payload of an output.message.completed event applies
\* the functions of the round trip to it: extract_tool_calls, as_tool_call on
\* each content part, handle_tool_call on each extracted call,
\* MessageInput.tool_results on the parts returned, and the submission of
\* the results through client.messages.
\*   loop.data        : the payload
\*   loop.at          : "payload", "extracted", "raised"
\*   loop.stage       : the call made last: "", "extract", "handler", "submit"
\*   loop.error       : the exception that call raised ("" when it returned)
\*   loop.calls       : what extract_tool_calls returned
\*   loop.projected   : as_tool_call was applied; loop.infos holds what it gave
\*   loop.results     : the parts the handlers returned, in the order of the calls
\*   loop.invocations : handler invocations made
\*   loop.built       : tool_results was applied; loop.message holds what it gave

SessionId == "session_1"

\* The content parts the payloads are built from.
PartPool ==
    { TextPart("It is sunny"),
      TextPart(NonStr),
      RawPart("tool_call", "c1", "get_weather", ArgsMap(<< "P", "a", "r", "i", "s" >>)),
      RawPart("tool_call", "c2", "get_time", NoArgs),
      RawPart("tool_call", "c3", "get_weather",
              [kind |-> "map", cityk |-> "int", city |-> << >>]),
      RawPart("tool_call", "c4", "get_weather", NullArgs),
      RawPart("tool_call", Absent, "get_weather", EmptyMap),
      RawPart("tool_call", "", "get_weather", EmptyMap),
      RawPart("tool_use", "c5", "get_weather", EmptyMap) }

SeqsUpTo(S, n) == UNION { [1..k -> S] : k \in 0..n }

\* The payloads: a message with up to MaxParts content parts, no message at
\* all, and a message whose content is no list.
ToolPayloads ==
    { [has_message |-> TRUE, content_is_list |-> TRUE, content |-> c] :
          c \in SeqsUpTo(PartPool, MaxParts) }
    \cup { NoPayload, [has_message |-> TRUE, content_is_list |-> FALSE, content |-> << >>] }

NoMessage == [role |-> "", content |-> << >>]

NewRoundTrip(data) ==
    [at |-> "payload", stage |-> "", error |-> "", data |-> data, calls |-> << >>,
     projected |-> FALSE, infos |-> << >>, results |-> << >>, invocations |-> 0,
     built |-> FALSE, message |-> NoMessage]

\* models.py:221-241  extract_tool_calls(data) is called (Event.tool_calls,
\* models.py:200-202, does the same): it returns the calls, or the
\* ValidationError of ToolCallInfo leaves it.
ExtractCalls ==
    /\ loop.at = "payload"
    /\ LET x == extract_tool_calls(loop.data)
       IN  loop' = [loop EXCEPT !.at = IF x.raised THEN "raised" ELSE "extracted",
                                !.stage = "extract",
                                !.error = IF x.raised THEN "ValidationError" ELSE "",
                                !.calls = x.calls]
    /\ UNCHANGED <<streamVars, client, peers>>

\* models.py:112-150  every content part of the payload is built as a
\* ContentPart and asked as_tool_call().
ProjectParts ==
    /\ ~loop.projected
    /\ loop.stage \in {"", "extract"}
    /\ loop.data.has_message /\ loop.data.content_is_list
    /\ loop' = [loop EXCEPT
          !.projected = TRUE,
          !.infos = [k \in 1..Len(loop.data.content) |-> as_tool_call(loop.data.content[k])]]
    /\ UNCHANGED <<streamVars, client, peers>>

\* weather_tools.py:37-43  handle_tool_call is applied to the next extracted
\* call, in the order of the calls: the part it returns is collected, an
\* exception it raises ends the round trip.
HandleNext ==
    /\ loop.at = "extracted"
    /\ ~loop.built
    /\ Len(loop.results) < Len(loop.calls)
    /\ LET tc == loop.calls[Len(loop.results) + 1]
           h == handle_tool_call(tc.id, tc.name, tc.arguments)
       IN  loop' = [loop EXCEPT !.at = IF h.raised THEN "raised" ELSE "extracted",
                                !.stage = "handler",
                                !.error = IF h.raised THEN "AttributeError" ELSE "",
                                !.invocations = @ + 1,
                                !.results = IF h.raised THEN @ ELSE Append(@, h.part)]
    /\ UNCHANGED <<streamVars, client, peers>>

\* Every extracted call has its part.
Dispatched ==
    loop.at = "extracted" /\ loop.calls # << >> /\ Len(loop.results) = Len(loop.calls)

\* models.py:174-177  MessageInput.tool_results(results) builds the message
\* of the parts collected.
BuildMessage ==
    /\ Dispatched
    /\ ~loop.built
    /\ loop' = [loop EXCEPT !.built = TRUE, !.message = tool_results(loop.results)]
    /\ UNCHANGED <<streamVars, client, peers>>

\* weather_tools.py:102-105  client.messages.create_tool_results(session_id,
\* results) is called to submit the parts.  MessagesClient (client.py:215-244)
\* defines list and create only: the attribute lookup raises AttributeError
\* and no request is issued.
SubmitResults ==
    /\ Dispatched
    /\ client.state = "ready"
    /\ ~client.awaiting
    /\ loop' = [loop EXCEPT !.at = "raised", !.stage = "submit", !.error = "AttributeError"]
    /\ UNCHANGED <<streamVars, client, peers>>

InitRoundTrip ==
    /\ InitStreamOver({}, { << >> })
    /\ loop \in { NewRoundTrip(d) : d \in ToolPayloads }
    /\ client = ReadyClient
    /\ peers = << >>

NextRoundTrip ==
    \/ ExtractCalls
    \/ ProjectParts
    \/ HandleNext
    \/ BuildMessage
    \/ SubmitResults

RoundTripSpec == InitRoundTrip /\ [][NextRoundTrip]_vars

\* ------------------------------------- streams with an exclude list
\* The event types a caller excludes (sse.py:26 exclude_deltas).
ExcludePool == {"output.message.delta", "reason.thinking.delta"}

UrlShapes ==
    { sh \in ValidShapes : sh.event = "" /\ sh.type = "output.message.completed" }
    \cup { [event |-> "", kind |-> "object", keys |-> RequiredKeys, typed |-> TRUE,
            idk |-> "empty", type |-> "output.message.completed", data |-> NoPayload] }

InitUrl ==
    /\ InitStreamOver(UrlShapes, SeqsUpTo(ExcludePool, MaxExclude))
    /\ loop = NoLoop
    /\ client = ReadyClient
    /\ peers = << >>

NextUrl ==
    \/ Open
    \/ Connected
    \/ ConnectFail
    \/ Receive
    \/ ReceiveNew(UrlShapes)
    \/ ConnClose
    \/ ConnError
    \/ ConsumerNext
    \/ ConsumerBreak
    \/ Finalize
    \/ TaskCancel
    \/ DropReference
    \/ FinalizeAbandoned
    \/ Reiterate
    \/ Resume

UrlSpec == InitUrl /\ [][NextUrl]_vars

\* --------------------------------------- REST calls through the client
\* client.requests : the HTTP requests issued, in order
\* client.awaiting : a call has issued its request and awaits the response
\* client.last     : the response of the last call and what the call did

\* The constructor arguments and environments explored.
ClientArgs ==
    { ConstructorArgs(o, k, u, e) :
        o \in {"org_1", Absent},
        k \in {Absent, "evr_key"},
        u \in {DEFAULT_BASE_URL, NoneUrl,
               [stem |-> "https://custom.example.com/api", slashes |-> 0],
               [stem |-> "https://custom.example.com/api", slashes |-> 1]},
        e \in {Absent, "", "evr_env"} }

\* The responses a server can give.
Statuses == {200, 204, 302, 400, 401, 404, 429, 500}

Bodies(status) ==
    IF status >= 200 /\ status <= 299
        THEN {JsonBody, TextBody("")}
        ELSE {EnvelopeBody("not_found", "agent missing"),
              EnvelopeBody("rate_limited", "slow down"),
              JsonBody, TextBody("Bad Gateway"), TextBody("")}

\* Everruns(...) is called.
Construct ==
    /\ client.state = "new"
    /\ client' = Everruns_init(client.args.org, client.args.api_key,
                               client.args.base_url, client.args.environ)
    /\ UNCHANGED <<streamVars, loop, peers>>

\* weather_tools.py:65, main.py:17  the cookbook builds its client with
\* dev_client(), from the environment alone.
DevConstruct ==
    /\ client.state = "new"
    /\ client.args.org = Absent
    /\ client.args.api_key = Absent
    /\ client' = dev_client(client.args.environ, client.args.base_url)
    /\ UNCHANGED <<streamVars, loop, peers>>

\* client.py:92-107  a REST method issues its one request with the headers
\* the httpx client was created with.
Call ==
    /\ client.state = "ready"
    /\ ~client.awaiting
    /\ Len(client.requests) < MaxRequests
    /\ \E method \in {"GET", "POST", "PATCH", "DELETE"} :
          client' = [client EXCEPT
              !.requests = Append(@, [method |-> method, url |-> ApiUrl(client, "/agents"),
                                      authorization |-> client.authorization]),
              !.awaiting = TRUE]
    /\ UNCHANGED <<streamVars, loop, peers>>

\* client.py:92-119  the response arrives and the call returns or raises.
Respond ==
    /\ client.awaiting
    /\ \E status \in Statuses : \E body \in Bodies(status) :
          LET method == client.requests[Len(client.requests)].method
          IN  client' = [client EXCEPT
                  !.awaiting = FALSE,
                  !.last = CallRecord(method, status, body,
                                      handle_response(method, status, body))]
    /\ UNCHANGED <<streamVars, loop, peers>>

\* client.py:93-105  httpx raises instead of giving a response: the error
\* leaves the call.
TransportError ==
    /\ client.awaiting
    /\ client' = [client EXCEPT
          !.awaiting = FALSE,
          !.last = CallRecord(client.requests[Len(client.requests)].method, 0, TextBody(""),
                              [raised |-> TRUE,
                               error |-> [class |-> "TransportError", status |-> 0,
                                          code |-> "", message |-> ""],
                               returned |-> "nothing"])]
    /\ UNCHANGED <<streamVars, loop, peers>>

\* client.py:121-123  close
Close ==
    /\ client.state = "ready"
    /\ ~client.awaiting
    /\ client' = [client EXCEPT !.state = "closed", !.http_client = "closed"]
    /\ UNCHANGED <<streamVars, loop, peers>>

InitClient ==
    /\ InitStreamOver({}, { << >> })
    /\ loop = NoLoop
    /\ client \in { NewClient(args) : args \in ClientArgs }
    /\ peers = << >>

NextClient ==
    \/ Construct
    \/ DevConstruct
    \/ Call
    \/ Respond
    \/ TransportError
    \/ Close

ClientSpec == InitClient /\ [][NextClient]_vars

\* ------------------------- a caller using both the REST calls and a stream
\* loop.at          : "start", then "streaming" (the EventStream exists) or
\*                    "raised" (building it raised)
\* loop.max_retries : the max_retries keyword the caller gives StreamOptions

CoreArgs ==
    { ConstructorArgs("org_1", "evr_key", DEFAULT_BASE_URL, Absent),
      ConstructorArgs("org_1", Absent,
                      [stem |-> "https://custom.example.com/api", slashes |-> 1], "evr_env"),
      ConstructorArgs("org_1", Absent, DEFAULT_BASE_URL, "") }

\* sse.py:17-21  StreamOptions is a dataclass with the fields exclude and
\* since_id: any other keyword argument (max_retries) raises TypeError.
StreamOptions_init(exclude, since_id, max_retries) ==
    IF max_retries # Absent
        THEN [raised |-> TRUE, exclude |-> << >>, since_id |-> None]
        ELSE [raised |-> FALSE, exclude |-> exclude, since_id |-> since_id]

\* sse.py:17-21, 37-46  the caller builds its StreamOptions, passing
\* max_retries (as weather_tools.py:86 does: TypeError, no EventStream is
\* made) or not, and the EventStream over them.
MakeStream ==
    /\ loop.at = "start"
    /\ client.state = "ready"
    /\ loop' = [loop EXCEPT !.at =
          IF StreamOptions_init(stream.exclude, stream.since_id, loop.max_retries).raised
             THEN "raised" ELSE "streaming"]
    /\ UNCHANGED <<streamVars, client, peers>>

\* sse.py:70-80  the stream is iterated once it exists.
CoreOpen == loop.at = "streaming" /\ Open

\* The response of a REST call, among a success, a missing resource and a
\* server error.
CoreRespond == Respond /\ client'.last.status \in {200, 404, 500}

InitCore ==
    /\ InitStreamOver(UrlShapes, { << >> })
    /\ loop \in { [at |-> "start", max_retries |-> m] : m \in {Absent, NonStr} }
    /\ client \in { NewClient(args) : args \in CoreArgs }
    /\ peers = << >>

NextCore ==
    \/ Construct
    \/ Call
    \/ CoreRespond
    \/ TransportError
    \/ Close
    \/ MakeStream
    \/ CoreOpen
    \/ Connected
    \/ ConnectFail
    \/ Receive
    \/ ReceiveNew(UrlShapes)
    \/ ConnClose
    \/ ConnError
    \/ ConsumerNext
    \/ ConsumerBreak
    \/ Finalize
    \/ TaskCancel

CoreSpec == InitCore /\ [][NextCore]_vars

\* -------------------------------- building and submitting tool_result parts
\* loop.at    : "building", then "submitted"
\* loop.parts : the parts built so far, each with the constructor that made it
\* loop.requests : the tool-result requests submitted

\* models.py:132-135  a caller builds a part with make_tool_result, from a
\* call id and a result that may be None.
BuildResult ==
    /\ loop.at = "building"
    /\ Len(loop.parts) < MaxParts
    /\ \E id \in {"c1", Absent}, r \in {PyNone, Some(get_weather(<< "P", "A", "R", "I", "S" >>))} :
          loop' = [loop EXCEPT !.parts = Append(@,
                     [how |-> "make_tool_result", part |-> make_tool_result(id, r)])]
    /\ UNCHANGED <<streamVars, client, peers>>

\* models.py:137-140  a caller builds a part with make_tool_error.
BuildError ==
    /\ loop.at = "building"
    /\ Len(loop.parts) < MaxParts
    /\ \E id \in {"c1", Absent}, e \in {PyNone, Some(<< "boom" >>)} :
          loop' = [loop EXCEPT !.parts = Append(@,
                     [how |-> "make_tool_error", part |-> make_tool_error(id, e)])]
    /\ UNCHANGED <<streamVars, client, peers>>

\* models.py:112-125  a caller constructs the part directly.
BuildDirect ==
    /\ loop.at = "building"
    /\ Len(loop.parts) < MaxParts
    /\ \E id \in {"c1", Absent}, r \in {PyNone, Some(get_weather(<< "P", "A", "R", "I", "S" >>))},
          e \in {PyNone, Some(<< "boom" >>)} :
          loop' = [loop EXCEPT !.parts = Append(@,
                     [how |-> "ContentPart", part |-> ContentPart_init("tool_result", id, r, e)])]
    /\ UNCHANGED <<streamVars, client, peers>>

\* models.py:174-177  MessageInput.tool_results puts the parts built into
\* the one tool_result message to be submitted.
SubmitParts ==
    /\ loop.at = "building"
    /\ loop.parts # << >>
    /\ loop' = [loop EXCEPT
          !.at = "submitted",
          !.requests = Append(@,
              [session_id |-> SessionId,
               message |-> tool_results([n \in 1..Len(loop.parts) |-> loop.parts[n].part])])]
    /\ UNCHANGED <<streamVars, client, peers>>

InitParts ==
    /\ InitStreamOver({}, { << >> })
    /\ loop = [at |-> "building", parts |-> << >>, requests |-> << >>]
    /\ client = ReadyClient
    /\ peers = << >>

NextParts ==
    \/ BuildResult
    \/ BuildError
    \/ BuildDirect
    \/ SubmitParts

PartsSpec == InitParts /\ [][NextParts]_vars

\* ------------------------------- the example programs, run as they are written
\* loop.program : "main.py", "weather_tools.py" (cookbook/python/src) or
\*                "basic.py" (python/examples)
\* loop.verbose : --verbose was given on the command line
\* loop.service : the events the service emits for the turn of a message
\*                sent to it
\* loop.at      : "start", "client" (the client exists), "raised" (an
\*                exception has ended the program)
\* loop.error   : that exception
\* loop.printed : what the program has printed
\* client.args  : the environment (EVERRUNS_API_KEY, EVERRUNS_API_URL)

\* The payload of a message that is the given text.
TextPayload(text) ==
    [has_message |-> TRUE, content_is_list |-> TRUE, content |-> << TextPart(text) >>]

\* The events a turn is made of.
ServiceShapes ==
    { [event |-> "", kind |-> "object", keys |-> RequiredKeys, typed |-> TRUE, idk |-> "seq",
       type |-> "input.message", data |-> TextPayload("Tell me a dad joke")],
      [event |-> "", kind |-> "object", keys |-> RequiredKeys, typed |-> TRUE, idk |-> "seq",
       type |-> "output.message.completed", data |-> TextPayload("Why did the chicken...")],
      [event |-> "", kind |-> "object", keys |-> RequiredKeys, typed |-> TRUE, idk |-> "seq",
       type |-> "output.message.completed",
       data |-> [has_message |-> TRUE, content_is_list |-> TRUE,
                 content |-> << RawPart("tool_call", "c1", "get_weather",
                                        ArgsMap(<< "P", "a", "r", "i", "s" >>)) >>]] }
    \cup
    { [event |-> "", kind |-> "object", keys |-> RequiredKeys, typed |-> TRUE, idk |-> "seq",
       type |-> t, data |-> NoPayload] : t \in TerminalTypes }

\* The environments a program is started in.
ProgramEnvs ==
    { ConstructorArgs(Absent, Absent, u, e) :
        u \in {NoneUrl, [stem |-> "http://localhost:9000/api", slashes |-> 0]},
        e \in {Absent, "", "evr_env"} }

NewProgram(program, verbose, service) ==
    [program |-> program, verbose |-> verbose, service |-> service,
     at |-> "start", error |-> "", printed |-> << >>]

\* main.py:15-17, 88-96  main reads the command line and calls dev_client(),
\* ahead of its try block: without a key dev_client raises ValueError, with
\* one it calls Everruns(api_key=..., base_url=...), which client.py:43-48
\* refuses for the missing org (TypeError).  The exception leaves main.
RunMain ==
    /\ loop.program = "main.py"
    /\ loop.at = "start"
    /\ client' = dev_client(client.args.environ, client.args.base_url)
    /\ loop' = [loop EXCEPT !.at = IF client'.state = "ready" THEN "client" ELSE "raised",
                            !.error = client'.error]
    /\ UNCHANGED <<streamVars, peers>>

\* weather_tools.py:15  from everruns_sdk import ContentPart, Everruns,
\* extract_tool_calls: the package (everruns_sdk/__init__.py) does not export
\* extract_tool_calls, so the import raises ImportError and no line of the
\* module after it runs.
RunWeatherTools ==
    /\ loop.program = "weather_tools.py"
    /\ loop.at = "start"
    /\ loop' = [loop EXCEPT !.at = "raised", !.error = "ImportError"]
    /\ UNCHANGED <<streamVars, client, peers>>

\* basic.py:8-10  main calls Everruns() ahead of its try block: the call
\* names no org and is refused (TypeError).  The exception leaves main.
RunBasic ==
    /\ loop.program = "basic.py"
    /\ loop.at = "start"
    /\ client' = Everruns_init(Absent, Absent, DEFAULT_BASE_URL, client.args.environ)
    /\ loop' = [loop EXCEPT !.at = IF client'.state = "ready" THEN "client" ELSE "raised",
                            !.error = client'.error]
    /\ UNCHANGED <<streamVars, peers>>

InitPrograms ==
    /\ InitStreamOver({}, { << >> })
    /\ loop \in { NewProgram(p, v, s) :
                    p \in {"main.py", "weather_tools.py", "basic.py"},
                    v \in BOOLEAN,
                    s \in SeqsUpTo(ServiceShapes, MaxLog) }
    /\ client \in { NewClient(args) : args \in ProgramEnvs }
    /\ peers = << >>

NextPrograms ==
    \/ RunMain
    \/ RunWeatherTools
    \/ RunBasic

ProgramSpec == InitPrograms /\ [][NextPrograms]_vars

\* ------------------------------------ two streams run by one application
\* peers[i] is one EventStream instance of the shared client, with the
\* generator of its current open call:
\*   stream  : its options and cursor     pc    : where its generator stands
\*   conn    : its HTTP connection        cause : why its open call stopped
\*   request : the handshake it sent      url   : the query it connected with
\*   frames  : the frames it received     yielded : the events it yielded

\* client.py:258-266  client.events.stream(session_id, options): a new
\* EventStream over the caller's options.
NewPeer(since, excl) ==
    [stream |-> NewStream(since, excl), pc |-> "idle", conn |-> "none", cause |-> "none",
     request |-> NoHandshake, url |-> << >>, frames |-> << >>, yielded |-> << >>]

\* The options stream i is created with: none, or the id of an event of
\* its session seen earlier and an exclude list.
PeerOptions(i) ==
    { [since_id |-> None, exclude |-> << >>],
      [since_id |-> i, exclude |-> << "output.message.delta" >>] }

\* The frames a session sends: an event, or a payload that is not JSON.
PeerShapes ==
    UrlShapes \cup { sh \in GarbledShapes : sh.kind = "text" }

\* Variant: the cursor is one attribute shared by every stream.
WriteBack_Shared(ps, i, st) ==
    [k \in 1..Len(ps) |->
        IF k = i THEN st
        ELSE [ps[k] EXCEPT !.stream.last_event_id = st.stream.last_event_id]]

\* sse.py:43-46, 87  the options and the cursor are attributes of the
\* instance: a step of stream i writes the state of stream i only.
WriteBack(ps, i, st) == [ps EXCEPT ![i] = st]

\* sse.py:70-80  stream i builds its URL and sends its request, over an HTTP
\* client of its own.
PeerOpen(i) ==
    /\ peers[i].pc = "idle"
    /\ peers' = WriteBack(peers, i,
          [peers[i] EXCEPT !.pc = "connecting",
                           !.conn = "connecting",
                           !.url = BuildUrl(peers[i].stream),
                           !.request = StreamRequest(client)])
    /\ UNCHANGED <<streamVars, loop, client>>

\* sse.py:75-81  the handshake of stream i is answered.
PeerConnected(i) ==
    /\ peers[i].pc = "connecting"
    /\ peers' = WriteBack(peers, i, [peers[i] EXCEPT !.pc = "reading", !.conn = "open"])
    /\ UNCHANGED <<streamVars, loop, client>>

\* sse.py:75-81  the handshake of stream i fails and the error leaves its
\* generator: refused before any answer, or answered by no event stream.
PeerConnectFail(i) ==
    /\ peers[i].pc = "connecting"
    /\ \E answered \in BOOLEAN :
          peers' = WriteBack(peers, i,
             [peers[i] EXCEPT !.pc = "failed", !.cause = "error",
                              !.conn = IF answered THEN "released" ELSE "never opened"])
    /\ UNCHANGED <<streamVars, loop, client>>

\* sse.py:81-91  stream i receives the next frame of its session; the ids of
\* the two sessions are disjoint and never decrease.
PeerFrame(i) ==
    /\ peers[i].pc = "reading"
    /\ peers[i].conn = "open"
    /\ Len(peers[i].frames) < MaxLog
    /\ \E sh \in PeerShapes :
          LET frame == Stamp(sh, 2 * (Len(peers[i].frames) + 1) + i)
              r == ProcessFrame(peers[i].stream, frame)
          IN  /\ sh.idk = "empty" => Len(peers[i].frames) = 0
              /\ peers' = WriteBack(peers, i,
                    [peers[i] EXCEPT
                        !.stream.last_event_id = r.cursor,
                        !.frames = Append(@, frame),
                        !.yielded = IF r.yields /\ ~r.raised THEN Append(@, r.event) ELSE @,
                        !.pc = PcAfterFrame(r),
                        !.conn = IF r.raised THEN "released" ELSE @,
                        !.cause = IF r.raised THEN "error" ELSE @])
    /\ UNCHANGED <<streamVars, loop, client>>

\* sse.py:88  the consumer of stream i asks for the next event.
PeerNext(i) ==
    /\ peers[i].pc = "yielded"
    /\ peers' = WriteBack(peers, i,
          [peers[i] EXCEPT !.pc = AfterYield(peers[i].yielded[Len(peers[i].yielded)])])
    /\ UNCHANGED <<streamVars, loop, client>>

\* sse.py:81  the server closes the connection of stream i.
PeerClose(i) ==
    /\ peers[i].pc = "reading"
    /\ peers[i].conn = "open"
    /\ peers' = WriteBack(peers, i,
          [peers[i] EXCEPT !.pc = "ended", !.conn = "released", !.cause = "close"])
    /\ UNCHANGED <<streamVars, loop, client>>

\* sse.py:81  reading the connection of stream i raises.
PeerError(i) ==
    /\ peers[i].pc = "reading"
    /\ peers[i].conn = "open"
    /\ peers' = WriteBack(peers, i,
          [peers[i] EXCEPT !.pc = "failed", !.conn = "released", !.cause = "error"])
    /\ UNCHANGED <<streamVars, loop, client>>

\* sse.py:88  the consumer of stream i breaks out of its loop: its generator
\* stays suspended, the connection open.
PeerBreak(i) ==
    /\ peers[i].pc = "yielded"
    /\ peers' = WriteBack(peers, i, [peers[i] EXCEPT !.pc = "suspended", !.cause = "cancel"])
    /\ UNCHANGED <<streamVars, loop, client>>

\* sse.py:74-91  the suspended generator of stream i is finalized.
PeerFinalize(i) ==
    /\ peers[i].pc = "suspended"
    /\ peers' = WriteBack(peers, i, [peers[i] EXCEPT !.pc = "closed", !.conn = "released"])
    /\ UNCHANGED <<streamVars, loop, client>>

\* sse.py:74-91  the task consuming stream i is cancelled while its
\* generator awaits the handshake or a frame.
PeerCancel(i) ==
    /\ peers[i].pc \in {"connecting", "reading"}
    /\ peers' = WriteBack(peers, i,
          [peers[i] EXCEPT !.pc = "closed", !.cause = "cancel",
                           !.conn = IF peers[i].conn = "open" THEN "released"
                                                              ELSE "never opened"])
    /\ UNCHANGED <<streamVars, loop, client>>

\* sse.py:53-72  stream i is iterated again: __aiter__ runs anew on the
\* cursor the instance kept.  The frames and events of the instance go on
\* being counted; the generator of the earlier call is no longer followed.
PeerReiterate(i) ==
    /\ peers[i].pc \in Terminated \cup {"yielded", "suspended"}
    /\ peers' = WriteBack(peers, i,
          [peers[i] EXCEPT !.pc = "idle", !.conn = "none", !.cause = "none",
                           !.url = << >>, !.request = NoHandshake])
    /\ UNCHANGED <<streamVars, loop, client>>

InitConcurrent ==
    /\ InitStreamOver({}, { << >> })
    /\ loop = NoLoop
    /\ client = ReadyClient
    /\ peers \in { << NewPeer(a.since_id, a.exclude), NewPeer(b.since_id, b.exclude) >> :
                     a \in PeerOptions(1), b \in PeerOptions(2) }

NextConcurrent ==
    \/ \E i \in 1..2 : PeerOpen(i)
    \/ \E i \in 1..2 : PeerConnected(i)
    \/ \E i \in 1..2 : PeerConnectFail(i)
    \/ \E i \in 1..2 : PeerFrame(i)
    \/ \E i \in 1..2 : PeerNext(i)
    \/ \E i \in 1..2 : PeerClose(i)
    \/ \E i \in 1..2 : PeerError(i)
    \/ \E i \in 1..2 : PeerBreak(i)
    \/ \E i \in 1..2 : PeerFinalize(i)
    \/ \E i \in 1..2 : PeerCancel(i)
    \/ \E i \in 1..2 : PeerReiterate(i)

ConcurrentSpec == InitConcurrent /\ [][NextConcurrent]_vars

\* ================================================================ claims

\* What the claims call a valid and a malformed frame, read off the wire
\* format alone (spec 4.3, 6).
ValidFrame(frame) ==
    frame.kind = "object" /\ RequiredKeys \subseteq frame.keys /\ frame.typed
MalformedFrame(frame) ==
    \/ frame.kind = "text"
    \/ frame.kind = "object" /\ \E k \in RequiredKeys : k \notin frame.keys
    \/ frame.kind = "object" /\ ~frame.typed

\* The ids of the decodable frames received so far never decrease.
ServerNonDecreasing ==
    \A i, j \in 1..Len(recv) :
        (i < j /\ ValidFrame(recv[i].frame) /\ ValidFrame(recv[j].frame))
            => recv[i].frame.id <= recv[j].frame.id

\* ---- C1.  Within one open call, whenever the server sends ids in
\* non-decreasing order, every yielded event has an id strictly greater than
\* the id of the event yielded before it.
C1_NeverYieldsSeenId ==
    ServerNonDecreasing =>
        \A i \in 1..Len(yielded) : i > 1 => yielded[i].id > yielded[i-1].id

\* ---- C2.  While the consumer holds a yielded event the exposed cursor
\* already equals that event's id, and after N >= 1 yielded events the
\* cursor is the id of the N-th.
C2_CursorAdvancedBeforeYield ==
    /\ pc = "yielded" => (held # NoEvent /\ stream.last_event_id = held.id)
    /\ Len(yielded) > 0 => stream.last_event_id = yielded[Len(yielded)].id

C2_Witness ==
    /\ pc = "yielded"
    /\ Len(yielded) >= 2
    /\ yielded[1].id # yielded[2].id
    /\ held = yielded[2]

\* ---- C3.  A malformed frame (not JSON, or JSON missing a required Event
\* field) is dropped: nothing is yielded for it, no error leaves the stream,
\* the stream goes on reading, the cursor is what it was, and a valid frame
\* that follows is yielded.
C3_MalformedFrameDropped ==
    \A i \in 1..Len(recv) :
        /\ MalformedFrame(recv[i].frame) =>
              /\ ~recv[i].yields
              /\ ~recv[i].raised
              /\ recv[i].pcAfter = "reading"
              /\ recv[i].after = recv[i].before
        /\ (i > 1 /\ MalformedFrame(recv[i-1].frame) /\ ValidFrame(recv[i].frame)) =>
              /\ recv[i].yields
              /\ recv[i].frame.id \in { yielded[n].id : n \in 1..Len(yielded) }

C3_Witness ==
    /\ Len(recv) = 3
    /\ ValidFrame(recv[1].frame) /\ recv[1].yields
    /\ recv[2].frame.kind = "object" /\ "ts" \notin recv[2].frame.keys
    /\ ~recv[2].yields /\ recv[2].after = recv[1].frame.id
    /\ ValidFrame(recv[3].frame) /\ recv[3].yields
    /\ Len(yielded) = 2
    /\ termCause = "none"

\* ---- C6.  The stream never stops because of an event's type: an open call
\* stops only by a close, an error or a cancellation, and every valid frame
\* received after a turn.completed or turn.failed event is yielded.
C6_NoSelfTermination ==
    /\ pc \in {"ended", "failed", "closed", "suspended"} =>
            termCause \in {"close", "error", "cancel"}
    /\ \A i, j \in 1..Len(recv) :
          (i < j /\ ValidFrame(recv[i].frame) /\ recv[i].frame.type \in TerminalTypes
                 /\ ValidFrame(recv[j].frame))
              => recv[j].yields

C6_Witness ==
    /\ Len(yielded) = 3
    /\ yielded[1].type = "turn.completed"
    /\ yielded[2].type = "turn.failed"
    /\ yielded[3].type = "output.message.completed"

\* The events of the valid frames among those received, in order.
RECURSIVE ValidEvents(_)
ValidEvents(rs) ==
    IF rs = << >> THEN << >>
    ELSE IF ValidFrame(Head(rs).frame)
            THEN << EventOf(Head(rs).frame) >> \o ValidEvents(Tail(rs))
            ELSE ValidEvents(Tail(rs))

\* ---- C7.  When the connection closes without error the open call ends
\* normally and has yielded every valid frame it received, in order.
C7_CloseEndsAfterAllYielded ==
    termCause = "close" =>
        /\ pc = "ended"
        /\ conn = "released"
        /\ yielded = ValidEvents(recv)

C7_Witness ==
    /\ termCause = "close"
    /\ pc = "ended"
    /\ Len(recv) = 3
    /\ Len(yielded) = 2
    /\ \E i \in 1..3 : recv[i].frame.event = "custom" /\ recv[i].yields


\* -------------------------------------------------- claims about resuming

PrevCall == calls[Len(calls)]
YieldedIds == { yielded[n].id : n \in 1..Len(yielded) }
\* The log position of the event a cursor names: ids count the log's entries,
\* and the empty id can only be the first entry's.
CursorPos(c) == IF c = EmptyId THEN 1 ELSE c
ValidLogIds(lo, hi) ==
    { log[i].id : i \in { j \in (lo + 1)..hi : j >= 1 /\ ValidFrame(log[j]) } }

\* ---- C4.  When the open call before this one stopped with cursor c and
\* this one was opened with since_id = c, no event with id c or smaller is
\* yielded.
C4_ResumeNeverReyields ==
    (Len(calls) > 0 /\ PrevCall.cursor # None) =>
        \A n \in 1..Len(yielded) : yielded[n].id > PrevCall.cursor

C4_Witness ==
    /\ Len(calls) = 1
    /\ PrevCall.cause = "close"
    /\ PrevCall.cursor = 2
    /\ stream.since_id = PrevCall.cursor
    /\ SinceParam(url) = PrevCall.cursor
    /\ Len(yielded) >= 1

\* ---- C5.  Resuming with since_id = e.id, e the last event observed before
\* the stream stopped, does not deliver e again and misses nothing: the
\* resumed call has yielded exactly the valid log entries after e that the
\* server has sent, and the two calls together every valid entry from where
\* the first one started.
C5_ResumeNoGapNoRepeat ==
    (Len(calls) > 0 /\ PrevCall.cursor # None) =>
        LET c == PrevCall.cursor
            at == CursorPos(c)
            hi == IF srvPos > at THEN srvPos ELSE at
        IN  /\ c \notin YieldedIds
            /\ YieldedIds = ValidLogIds(at, hi)
            /\ { PrevCall.ids[n] : n \in 1..Len(PrevCall.ids) } \cup YieldedIds
                  = ValidLogIds(PrevCall.since, hi)
            /\ \A n \in 1..Len(yielded) : n > 1 => yielded[n-1].id <= yielded[n].id

C5_Witness ==
    /\ Len(calls) = 1
    /\ PrevCall.cause = "error"
    /\ PrevCall.cursor = 1
    /\ PrevCall.sent = 2
    /\ ~ValidFrame(log[2])
    /\ Len(log) = 3
    /\ srvPos = 3
    /\ YieldedIds = {3}

\* ---- C8.  Once the consumer has cancelled, that open call yields nothing
\* more and a generator that has been closed holds no connection: the task's
\* cancellation releases it at once (a connection still in its handshake
\* never opens), the finalizer releases it after a break.  Events flow
\* again only in a new open call, whose URL carries the last observed
\* cursor.
C8_CancelReleasesAndStops ==
    /\ [][(termCause = "cancel" /\ pc' # "idle") =>
              (yielded' = yielded /\ held' = held /\ recv' = recv)]_vars
    /\ [](pc = "closed" => conn \in {"released", "never opened"})
    /\ []((Len(calls) > 0 /\ PrevCall.cause = "cancel" /\ PrevCall.cursor # None
              /\ pc \in {"reading", "yielded"})
            => SinceParam(url) = PrevCall.cursor)


\* ------------------------------------- claims about the tool-call round trip

\* ---- C9.  Once every tool call of a completed message has its result and
\* the results were submitted, the submission has returned and exactly one
\* request was issued through the client for them, the POST of one message
\* to the session; no request is in flight.
C9_OneBatchPerMessage ==
    loop.stage = "submit" =>
        /\ loop.at # "raised"
        /\ Len(client.requests) = 1
        /\ client.requests[1].method = "POST"
        /\ client.requests[1].url = ApiUrl(client, "/sessions/session_1/messages")
        /\ ~client.awaiting

\* ---- C10.  The message built of the results of N extracted tool calls
\* has role tool_result and exactly N tool_result parts, one handler
\* invocation was made per call, the i-th part names the id of the i-th
\* call, and parts of calls with different ids name different ids.
C10_ResultsMatchCalls ==
    loop.built =>
        /\ loop.message.role = "tool_result"
        /\ loop.invocations = Len(loop.calls)
        /\ Len(loop.message.content) = Len(loop.calls)
        /\ \A i \in 1..Len(loop.message.content) :
              /\ loop.message.content[i].type = "tool_result"
              /\ loop.message.content[i].tool_call_id = loop.calls[i].id
        /\ \A i, j \in 1..Len(loop.message.content) :
              loop.calls[i].id # loop.calls[j].id
                 => loop.message.content[i].tool_call_id # loop.message.content[j].tool_call_id

C10_Witness ==
    /\ loop.built
    /\ Len(loop.calls) = 2
    /\ loop.invocations = 2
    /\ Len(loop.message.content) = 2
    /\ loop.message.content[1].tool_call_id = "c1"
    /\ loop.message.content[2].tool_call_id = "c2"

\* ---- C11.  No failure of a tool handler leaves the dispatch: every
\* invocation of a handler has given a tool_result part naming the id of
\* its call (an error-bearing one when the handler failed), so the parts of
\* all calls can still be submitted.
C11_HandlerFailureBecomesErrorPart ==
    /\ ~(loop.at = "raised" /\ loop.stage = "handler")
    /\ Len(loop.results) = loop.invocations
    /\ \A k \in 1..Len(loop.results) :
          /\ loop.results[k].type = "tool_result"
          /\ loop.results[k].tool_call_id = loop.calls[k].id

\* The handlers the cookbook registers.
RegisteredTools == {"get_weather"}

\* The result the claim asks for a call to an unknown tool.
UnknownToolPart(call) ==
    [type |-> "tool_result", tool_call_id |-> call.id, result |-> << >>,
     error |-> << << "Unknown tool: ", call.name >> >>]

\* ---- C12.  For every extracted call whose name matches no registered
\* handler, dispatch does not raise and the part it returns is a tool_result
\* part naming the call's id with error "Unknown tool: <name>".
C12_UnknownToolGetsErrorPart ==
    /\ \A k \in 1..Len(loop.results) :
          loop.calls[k].name \notin RegisteredTools =>
             loop.results[k] = UnknownToolPart(loop.calls[k])
    /\ (loop.at = "raised" /\ loop.stage = "handler") =>
          loop.calls[Len(loop.results) + 1].name \in RegisteredTools

C12_Witness ==
    /\ Len(loop.calls) = 2
    /\ loop.calls[1].name = "get_weather"
    /\ loop.calls[2].name = "get_time"
    /\ loop.invocations = 2
    /\ Len(loop.results) = 2
    /\ loop.results[2].tool_call_id = "c2"
    /\ loop.results[2].error = << << "Unknown tool: ", "get_time" >> >>

\* The ToolCallInfo list the claim asks of a content list: one entry per
\* tool_call part with a non-empty id and name, in order, the arguments an
\* empty map when the part has none.
RECURSIVE ExpectedCalls(_)
ExpectedCalls(content) ==
    IF content = << >> THEN << >>
    ELSE LET part == Head(content)
         IN  IF part.type = "tool_call" /\ part.id \notin {Absent, Null, ""}
                                         /\ part.name \notin {Absent, Null, ""}
                THEN << [id |-> part.id, name |-> part.name,
                         arguments |-> IF part.arguments.kind = "absent"
                                          THEN EmptyMap
                                          ELSE part.arguments] >>
                     \o ExpectedCalls(Tail(content))
                ELSE ExpectedCalls(Tail(content))

\* extract_tool_calls was applied and raised.
ExtractRaised == loop.at = "raised" /\ loop.stage = "extract"

\* ---- C15.  For every event payload extract_tool_calls is applied to, it
\* does not raise and returns, in content order, one ToolCallInfo per
\* tool_call part with non-empty id and name (arguments defaulted to an
\* empty map when absent), skipping the other parts; a payload without a
\* message or whose content is no sequence gives the empty list.
C15_ExtractReturnsEveryToolCall ==
    loop.stage # "" =>
        /\ ~ExtractRaised
        /\ loop.calls = IF loop.data.has_message /\ loop.data.content_is_list
                           THEN ExpectedCalls(loop.data.content) ELSE << >>

\* ---------------------------------------- claims about the example programs

\* The event types of the turn the service plays.
ServiceTypes == [n \in 1..Len(loop.service) |-> loop.service[n].type]

\* The messages the client has sent to a session.
MessagePosts ==
    SelectSeq(client.requests,
              LAMBDA q : q.method = "POST" /\ q.url = ApiUrl(client, "/sessions/session_1/messages"))

\* ---- C14.  main.py, started with a credential against a service whose
\* turn is input.message, output.message.completed (assistant text, no tool
\* calls), turn.completed, and run to its end, has printed the input, then
\* the output, then the end of the turn and has stopped without an
\* exception; the client has sent exactly one message, the user message.
C14_DadJokeScenario ==
    (/\ loop.program = "main.py"
     /\ TruthyValue(client.args.environ)
     /\ ServiceTypes = << "input.message", "output.message.completed", "turn.completed" >>
     /\ extract_tool_calls(loop.service[2].data).calls = << >>
     /\ loop.at # "start")
    =>
    /\ loop.at = "done"
    /\ SelectSeq(loop.printed, LAMBDA l : l # "[EVENT]")
          = << "Input", "Output", "[Turn completed]" >>
    /\ Len(MessagePosts) = 1

\* ------------------------------------------------ claims about the URL

\* The since_id and the exclude parameters of a query, in order.
SinceParams(u) == SelectSeq(u, LAMBDA q : q.k = "since_id")
ExcludeParams(u) == SelectSeq(u, LAMBDA q : q.k = "exclude")

\* ---- C16.  Whenever an open call builds its URL, the since_id parameter is
\* the cursor when there is one, otherwise the caller's since_id, otherwise
\* it is left out; and the URL carries one exclude parameter per entry of the
\* exclude list, in order, and nothing else.
C16_UrlCarriesCursorAndExcludes ==
    [][(pc = "idle" /\ pc' # "idle") =>
          /\ SinceParams(url') =
                 IF stream.last_event_id # None
                    THEN << [k |-> "since_id", id |-> stream.last_event_id, name |-> ""] >>
                 ELSE IF stream.since_id # None
                    THEN << [k |-> "since_id", id |-> stream.since_id, name |-> ""] >>
                 ELSE << >>
          /\ Len(ExcludeParams(url')) = Len(stream.exclude)
          /\ \A i \in 1..Len(stream.exclude) : ExcludeParams(url')[i].name = stream.exclude[i]
          /\ Len(url') = Len(SinceParams(url')) + Len(ExcludeParams(url'))]_vars

\* ---- C17.  Before any event has been decoded, the stream's cursor is the
\* since_id the caller supplied, and absent when none was supplied.
C17_CursorStartsAtSinceId ==
    (Len(calls) = 0 /\ \A i \in 1..Len(recv) : ~recv[i].yields)
        => stream.last_event_id = stream.since_id

\* --------------------------------------------- claims about the client

\* ---- C18.  Constructing a client with no explicit credential and no, or an
\* empty, EVERRUNS_API_KEY fails with the configuration error (ValueError)
\* before an HTTP client exists, and no request is ever made.
C18_NoCredentialFailsBeforeNetwork ==
    (/\ client.state # "new"
     /\ client.args.api_key = Absent
     /\ client.args.environ \in {Absent, ""})
    =>
    /\ client.state = "failed"
    /\ client.error = "ValueError"
    /\ client.http_client = "none"
    /\ client.requests = << >>
    /\ ~client.awaiting

\* The error classes of the API and the class each status asks for.
TypedErrors == {"AuthenticationError", "NotFoundError", "RateLimitError", "ApiError"}

\* A response has been received for the last call.
Responded == client.last.method # "" /\ client.last.status # 0

\* ---- C19.  Every non-success response raises the typed error its status
\* selects (401 AuthenticationError, 404 NotFoundError, 429 RateLimitError,
\* otherwise ApiError) carrying the status and the envelope's code and
\* message; a success response raises nothing.
C19_TypedErrorByStatus ==
    Responded =>
        LET c == client.last
        IN  IF c.status \in 200..299
               THEN /\ ~c.raised
                    /\ c.error = NoError
               ELSE /\ c.raised
                    /\ c.error.class \in TypedErrors
                    /\ c.status = 401 <=> c.error.class = "AuthenticationError"
                    /\ c.status = 404 <=> c.error.class = "NotFoundError"
                    /\ c.status = 429 <=> c.error.class = "RateLimitError"
                    /\ c.error.status = c.status
                    /\ c.body.kind = "envelope" =>
                          (c.error.code = c.body.code /\ c.error.message = c.body.message)

\* ---- C20.  When the body of a non-success response is not valid JSON, the
\* error raised carries code "unknown", the raw response text as message and
\* the HTTP status.
C20_NonJsonBodyGivesUnknown ==
    (Responded /\ client.last.status \notin 200..299 /\ client.last.body.kind = "text")
    =>
    /\ client.last.raised
    /\ client.last.error.code = "unknown"
    /\ client.last.error.message = client.last.body.text
    /\ client.last.error.status = client.last.status

C20_Witness ==
    /\ Responded
    /\ client.last.status = 500
    /\ client.last.body.kind = "text"
    /\ client.last.body.text = "Bad Gateway"
    /\ client.last.error.message = "Bad Gateway"
    /\ client.last.error.code = "unknown"

\* ------------------------------------- claims about retries and credentials

\* ---- C21.  The core never retries, whatever streaming options the caller
\* passes, max_retries included: the options are accepted and the stream is
\* built over them.  A REST call issues exactly one HTTP request, and when
\* it ends (by a response or a transport error) no further request was
\* issued for it and a failure is raised from that call.  One open call of
\* the stream makes exactly one connection attempt, and once it has failed,
\* ended or been closed it stays so: it does not reconnect by itself.
C21_NeverRetries ==
    /\ [][(loop.at = "start" /\ loop'.at # "start") => loop'.at = "streaming"]_vars
    /\ [](attempts <= 1)
    /\ [](pc # "idle" => attempts = 1)
    /\ [][Len(client'.requests) > Len(client.requests) =>
              (/\ Len(client'.requests) = Len(client.requests) + 1
               /\ ~client.awaiting /\ client'.awaiting)]_vars
    /\ [][(client.awaiting /\ ~client'.awaiting) =>
              (/\ client'.requests = client.requests
               /\ (client'.last.status \notin 200..299 => client'.last.raised))]_vars
    /\ [][(pc = "failed" \/ pc = "ended" \/ pc = "closed") =>
              (pc' = pc /\ conn' = conn /\ attempts' = attempts
               /\ (conn = "released" \/ conn = "never opened"))]_vars

\* The credential the client was constructed with.
Credential ==
    IF client.args.api_key # Absent THEN client.args.api_key ELSE client.args.environ

\* ---- C23.  Every REST request and every streaming connection carries the
\* credential the client was constructed with as its Authorization header,
\* the stream connects to the client's base address, and once the client is
\* constructed its credential and base address never change.
C23_CredentialOnEveryRequest ==
    /\ [](\A n \in 1..Len(client.requests) : client.requests[n].authorization = Credential)
    /\ [](attempts > 0 =>
              (handshake.authorization = Credential /\ handshake.base = client.base_url))
    /\ [][client.state # "new" =>
              (/\ client'.api_key = client.api_key
               /\ client'.authorization = client.authorization
               /\ client'.base_url = client.base_url)]_vars

C23_Witness ==
    /\ client.args.api_key = Absent
    /\ client.args.environ = "evr_env"
    /\ Len(client.requests) = 2
    /\ client.requests[2].authorization = "evr_env"
    /\ pc = "reading"
    /\ Len(yielded) = 1
    /\ handshake.authorization = "evr_env"

\* -------------------------------------------- claims about tool_result parts

\* The part carries a tool_call_id and exactly one of result and error.
WellFormedResult(part) ==
    /\ part.tool_call_id # Absent
    /\ (part.result # PyNone) # (part.error # PyNone)

\* ---- C22.  Every tool_result part the client builds, with make_tool_result,
\* with make_tool_error or directly, and every tool_result part it submits,
\* carries a tool_call_id and exactly one of result and error: never both
\* and never neither.
C22_ToolResultHasExactlyOneOutcome ==
    /\ \A n \in 1..Len(loop.parts) :
          loop.parts[n].part.type = "tool_result" => WellFormedResult(loop.parts[n].part)
    /\ \A n \in 1..Len(loop.requests) :
          \A k \in 1..Len(loop.requests[n].message.content) :
             WellFormedResult(loop.requests[n].message.content[k])

\* ------------------------------------------------ claims about the base URL

\* ---- C24.  Base URL normalization yields exactly one trailing slash: for a
\* base URL given with or without a trailing slash, the stored base URL of a
\* constructed client is the given address ending with a single '/', so both
\* spellings give the same stored value.
C24_BaseUrlOneTrailingSlash ==
    client.state = "ready" =>
        client.base_url = [stem |-> client.args.base_url.stem, slashes |-> 1]

\* ---------------------------------------------- claims about two streams

\* The events of the valid frames among the given ones, in order: what a
\* stream yields when it alone reads these frames (C3, C7).
RECURSIVE EventsOfValid(_)
EventsOfValid(frames) ==
    IF frames = << >> THEN << >>
    ELSE IF ValidFrame(Head(frames))
            THEN << EventOf(Head(frames)) >> \o EventsOfValid(Tail(frames))
            ELSE EventsOfValid(Tail(frames))

\* ---- C25.  Two EventStream instances run concurrently share no mutable
\* state.  Whatever the interleaving of their steps, each stream has
\* yielded exactly the events of the valid frames it received itself, in
\* order, and its cursor is the id of the last of them (none before the
\* first), as when it runs alone; a step of one stream changes nothing of
\* the other, and no step changes the options either was created with.
C25_StreamsShareNoState ==
    /\ [](\A i \in 1..Len(peers) :
             /\ peers[i].yielded = EventsOfValid(peers[i].frames)
             /\ peers[i].stream.last_event_id =
                   IF peers[i].yielded = << >> THEN None
                   ELSE peers[i].yielded[Len(peers[i].yielded)].id)
    /\ [][\A i, j \in 1..Len(peers) :
             (i # j /\ peers'[i] # peers[i]) => peers'[j] = peers[j]]_vars
    /\ [][\A i \in 1..Len(peers) :
             /\ peers'[i].stream.since_id = peers[i].stream.since_id
             /\ peers'[i].stream.exclude = peers[i].stream.exclude]_vars

C25_Witness ==
    /\ Len(peers) = 2
    /\ peers[1].pc = "yielded" /\ peers[1].conn = "open"
    /\ peers[2].pc = "reading" /\ peers[2].conn = "open"
    /\ peers[1].stream.since_id = 1 /\ peers[2].stream.since_id = None
    /\ Len(peers[1].frames) = 2 /\ Len(peers[1].yielded) = 2
    /\ Len(peers[2].frames) = 2 /\ Len(peers[2].yielded) = 1
    /\ peers[1].stream.last_event_id = 5
    /\ peers[2].stream.last_event_id = 4

\* ------------------------------------ claims about the cursor and the frames

\* ---- C26.  The cursor changes only in the step that successfully decodes
\* an event, and then to the id of the event that step yields: building the
\* URL, a dropped frame, the connection closing, a connection error and
\* consumer cancellation leave it unchanged.  So whenever events were
\* yielded, and in particular after the stream has ended, the exposed cursor
\* is the id of the last event yielded.
C26_CursorChangesOnlyOnDecode ==
    /\ [][stream'.last_event_id # stream.last_event_id =>
              (/\ Len(yielded') = Len(yielded) + 1
               /\ recv'[Len(recv')].yields
               /\ stream'.last_event_id = yielded'[Len(yielded')].id)]_vars
    /\ [](yielded # << >> => stream.last_event_id = yielded[Len(yielded)].id)
    /\ [](yielded = << >> => stream.last_event_id = None)

C26_Witness ==
    /\ pc = "ended"
    /\ termCause = "close"
    /\ Len(recv) = 3
    /\ ~recv[1].yields
    /\ recv[2].yields
    /\ ~recv[3].yields
    /\ Len(yielded) = 1
    /\ stream.last_event_id = yielded[1].id
    /\ stream.last_event_id = 2

\* The names a server can give a frame: none, the default one, another one.
EventNames == {"", "message", "custom"}

\* ---- C27.  Whether a frame is yielded or dropped, and the cursor after it,
\* depend only on its data payload: the same frame under any other SSE event
\* name, or under none, is treated the same way, and a frame with an empty
\* data payload never yields an event.
C27_EventNameIsIgnored ==
    \A i \in 1..Len(recv) :
        /\ \A n \in EventNames :
              LET r == ProcessFrame([stream EXCEPT !.last_event_id = recv[i].before],
                                    [recv[i].frame EXCEPT !.event = n])
              IN  /\ r.yields = recv[i].yields
                  /\ r.cursor = recv[i].after
                  /\ r.raised = recv[i].raised
        /\ recv[i].frame.kind = "empty" => (~recv[i].yields /\ recv[i].after = recv[i].before)

C27_Witness ==
    /\ Len(recv) = 3
    /\ recv[1].frame.event = "custom" /\ recv[1].frame.kind = "object" /\ recv[1].yields
    /\ recv[2].frame.event = "" /\ recv[2].frame.kind = "object" /\ recv[2].yields
    /\ recv[3].frame.kind = "empty" /\ ~recv[3].yields
    /\ stream.last_event_id = 2

\* --------------------------------- claims about the two tool-call projections

\* The ToolCallInfos as_tool_call gave for the parts, in the order of the parts.
RECURSIVE InfosOf(_)
InfosOf(infos) ==
    IF infos = << >> THEN << >> ELSE Head(infos).info \o InfosOf(Tail(infos))

\* ---- C28.  The two tool-call projections agree: for every payload both
\* were applied to, neither raises and extract_tool_calls gives a
\* ToolCallInfo for exactly the content parts ContentPart.as_tool_call gives
\* one for, with equal id, name and arguments; this includes parts whose id
\* or name is the empty string and parts whose arguments are absent or null.
C28_ProjectionsAgree ==
    (loop.projected /\ loop.stage # "") =>
        /\ ~ExtractRaised
        /\ \A k \in 1..Len(loop.infos) : ~loop.infos[k].raised
        /\ loop.calls = InfosOf(loop.infos)

====
